---- MODULE Spec2Model ----
(***************************************************************************)
(* A model of python_guide_b8f2c6.py: the CellularAutomaton class (a       *)
(* toroidal grid of cells advanced by a rule dictionary) and the driver    *)
(* loop of main().                                                         *)
(*                                                                         *)
(* Python lists are mutable objects with identity, so the model keeps a    *)
(* heap: `lists` holds the outer list objects (a grid is a list of rows)   *)
(* and `rows` the row list objects.  A list is a function on 0..n-1, as    *)
(* Python indexes it.  Tuples (neighbour vectors, rule keys) are immutable *)
(* values and are modelled as TLA+ sequences.                              *)
(***************************************************************************)
EXTENDS Integers, Sequences, FiniteSets, TLC

\* ---------------------------------------------------------------- bounds
\* Largest grid width and height the class is constructed with on its own.
MaxW == 3
MaxH == 3
\* Largest number of update() calls followed on one automaton.
MaxGen == 3
\* Side of the square grid the 2x2 block is placed on.
BlockDim == 10
\* Largest width and height of the grids the blinker is placed on (from 5 up).
MaxBlinkerDim == 6
\* Grid width and height of the driver loop (SCREEN_WIDTH // CELL_SIZE and
\* SCREEN_HEIGHT // CELL_SIZE, 160 and 120 in main(), scaled down).
DriverW == 2
DriverH == 2
\* Largest number of SPACE resets followed in one run of the driver loop.
MaxResets == 2
\* Largest grid width and height of two automata run side by side, and the
\* largest number of update() calls followed on each of the two.
TwinW == 3
TwinH == 3
MaxTwinGen == 2
\* Largest grid width and height of an automaton whose grid object is handed
\* to a caller that keeps it.
ViewW == 2
ViewH == 2
\* Largest number of times such an automaton is replaced by a new one.
MaxViewResets == 1
\* The widths and heights the constructor is called with when the arguments
\* are not required to be positive: from DimBelow below zero to DimAbove.
DimBelow == 1
DimAbove == 2
\* Largest grid width and height constructed with a density of any size.
DensW == 2
DensH == 2

\* ---------------------------------------------------------------- inputs
\* random.random() returns a float in [0.0, 1.0); initial_density is a float.
\* Both are modelled in tenths: main() passes 0.3, and on a reset a value of
\* random.uniform(0.2, 0.4).
Draws == {2, 6}
Densities == {2, 3}
\* For the constructor called with any density: densities below, at and above
\* the ends of [0.0, 1.0] and one inside, and draws at the lowest value
\* random.random() can return, at that inner density and near 1.0.
AnyDensities == {0 - 1, 0, 3, 10, 11}
AnyDraws == {0, 3, 9}

VARIABLES
    lists,      \* heap of outer list objects: address -> [0..n-1 -> row address]
    rows,       \* heap of row list objects:   address -> [0..n-1 -> cell state]
    automaton,  \* the CellularAutomaton object: its attributes (self.*)
    built,      \* history: the arguments of the constructor call that made the
                \* automaton, and the values random.random() returned to it
    gen,        \* history: number of update() calls made on the automaton
    probe,      \* what a user of the class observes or holds: the last direct
                \* call of a method or lookup with its result, a list object
                \* get_grid() returned, a second automaton, or the calls made
                \* in the current pass of the driver loop
    pc,         \* main(): the statement the driver loop is at
    running,    \* main(): the loop flag
    resets      \* history: number of SPACE resets handled

vars == <<lists, rows, automaton, built, gen, probe, pc, running, resets>>

\* ------------------------------------------------------- Python built-ins
\* range(n)
Range(n) == 0 .. (n - 1)

\* len(range(n)): range(n) is empty for n <= 0
RangeLen(n) == IF n > 0 THEN n ELSE 0

\* len(l) of a list object
PyLen(l) == Cardinality(DOMAIN l)

\* Mutant of PyMod: the index is clamped to the edge instead of wrapped.
ClampIndex(a, n) == IF a < 0 THEN 0 ELSE IF a >= n THEN n - 1 ELSE a

\* Mutant of PyMod: max(a, 0) % n, an index below 0 is not wrapped.
PyModClampLow(a, n) == (IF a < 0 THEN 0 ELSE a) % n

\* a % n for n > 0: Python's remainder has the sign of the divisor
PyMod(a, n) == a % n

\* sum(t) of a tuple of numbers
RECURSIVE PySum(_)
PySum(t) == IF t = <<>> THEN 0 ELSE Head(t) + PySum(Tail(t))

\* d[k] = v on a dict
DictSet(d, k, v) == (k :> v) @@ d

\* Mutant of DictGet: d.get(k, 0), a missing key reads as Dead.
DictGetOrZero(d, k, default) == IF k \in DOMAIN d THEN d[k] ELSE 0

\* d.get(k, default)
DictGet(d, k, default) == IF k \in DOMAIN d THEN d[k] ELSE default

\* ------------------------------------------------------------------ heap
\* The k-th (from 0) address not in use in heap h.
NthFree(h, k) ==
    LET free == (1 .. (Cardinality(DOMAIN h) + k + 1)) \ DOMAIN h
    IN  CHOOSE a \in free : Cardinality({b \in free : b < a}) = k

\* A new list of new row lists holding the values vals[0], vals[1], ...
\* ([[... for c ...] for r ...]): every row is a distinct new object.
NewList2D(ls, rs, vals) ==
    LET n  == PyLen(vals)
        ra == [r \in Range(n) |-> NthFree(rs, r)]
        la == NthFree(ls, 0)
    IN  [lists |-> [a \in (DOMAIN ls) \cup {la} |-> IF a = la THEN ra ELSE ls[a]],
         rows  |-> [a \in (DOMAIN rs) \cup {ra[r] : r \in Range(n)} |->
                       IF a \in DOMAIN rs THEN rs[a]
                       ELSE vals[CHOOSE r \in Range(n) : ra[r] = a]],
         ref   |-> la]

\* Reference counting: list objects no longer reachable from `roots` are freed.
Collect(ls, rs, roots) ==
    LET liveRows == UNION {{ls[a][r] : r \in DOMAIN ls[a]} : a \in roots}
    IN  [lists |-> [a \in roots |-> ls[a]],
         rows  |-> [a \in liveRows |-> rs[a]]]

\* The value of the grid object at address g: [row -> [column -> state]]
GridAt(ls, rs, g) == [r \in DOMAIN ls[g] |-> rs[ls[g][r]]]

\* ------------------------------------------------------------ rule tables
\* bin(i)[2:].zfill(8) turned into a tuple of ints: the 8 bits of i, most
\* significant first.
Bits(i) == [k \in 1 .. 8 |-> (i \div (2 ^ (8 - k))) % 2]

\* Mutant of LifeEntries: the else branch is left out, no death is stored.
LifeEntriesNoDeath(d, neighbors) ==
    LET live_neighbor_count == PySum(neighbors)
        d1 == IF live_neighbor_count = 3
              THEN DictSet(d, <<0>> \o neighbors, 1)
              ELSE d
    IN  IF live_neighbor_count = 2 \/ live_neighbor_count = 3
        THEN DictSet(d1, <<1>> \o neighbors, 1)
        ELSE d1

\* Mutant of LifeEntries: sum(neighbors[1:]), the first neighbour is not
\* counted.
LifeEntriesCountTail(d, neighbors) ==
    LET live_neighbor_count == PySum(Tail(neighbors))
        d1 == IF live_neighbor_count = 3
              THEN DictSet(d, <<0>> \o neighbors, 1)
              ELSE d
    IN  IF live_neighbor_count = 2 \/ live_neighbor_count = 3
        THEN DictSet(d1, <<1>> \o neighbors, 1)
        ELSE DictSet(d1, <<1>> \o neighbors, 0)

\* Mutant of LifeEntries: birth on 2 or 3 neighbours.
LifeEntriesBirthOnTwo(d, neighbors) ==
    LET live_neighbor_count == PySum(neighbors)
        d1 == IF live_neighbor_count = 2 \/ live_neighbor_count = 3
              THEN DictSet(d, <<0>> \o neighbors, 1)
              ELSE d
    IN  IF live_neighbor_count = 2 \/ live_neighbor_count = 3
        THEN DictSet(d1, <<1>> \o neighbors, 1)
        ELSE DictSet(d1, <<1>> \o neighbors, 0)

\* Mutant of LifeEntries: a surviving cell is stored as its neighbour count.
LifeEntriesStoreCount(d, neighbors) ==
    LET live_neighbor_count == PySum(neighbors)
        d1 == IF live_neighbor_count = 3
              THEN DictSet(d, <<0>> \o neighbors, 1)
              ELSE d
    IN  IF live_neighbor_count = 2 \/ live_neighbor_count = 3
        THEN DictSet(d1, <<1>> \o neighbors, live_neighbor_count)
        ELSE DictSet(d1, <<1>> \o neighbors, 0)

\* One pass of the body of `for i in range(256)`: the entries stored for the
\* neighbour tuple `neighbors`.
LifeEntries(d, neighbors) ==
    LET live_neighbor_count == PySum(neighbors)
        d1 == IF live_neighbor_count = 3
              THEN DictSet(d, <<0>> \o neighbors, 1)
              ELSE d
    IN  IF live_neighbor_count = 2 \/ live_neighbor_count = 3
        THEN DictSet(d1, <<1>> \o neighbors, 1)
        ELSE DictSet(d1, <<1>> \o neighbors, 0)

\* `for i in range(256)` restricted to i = lo, ..., hi - 1, run in order on
\* dictionary d.  The range is split in two halves run one after the other,
\* and the dictionary the first half leaves is evaluated before the second
\* half starts, which keeps the evaluation shallow.
RECURSIVE LifeLoop(_, _, _)
LifeLoop(d, lo, hi) ==
    IF hi <= lo THEN d
    ELSE IF hi = lo + 1 THEN LifeEntries(d, Bits(lo))
    ELSE LET mid  == (lo + hi) \div 2
             left == LifeLoop(d, lo, mid)
         IN  IF DOMAIN left = {} THEN LifeLoop(<<>>, mid, hi)
             ELSE LifeLoop(left, mid, hi)

\* The dictionary main() passes to the automaton.
rules_for_game_of_life == LifeLoop(<<>>, 0, 256)

\* All 512 rule keys (current state, 8 neighbour states).
Keys == {<<s>> \o Bits(i) : s \in {0, 1}, i \in 0 .. 255}

\* rule_set is a constructor argument.  Besides the dictionary of main() the
\* class is exercised with the empty dictionary and with a position-sensitive
\* one (next state = state of the top-left neighbour, stored for every key).
RuleIds == {"life", "empty", "topleft"}

EmptyRules == <<>>

TopLeftRules == [k \in Keys |-> k[2]]

RuleSetOf(id) ==
    CASE id = "life"    -> rules_for_game_of_life
      [] id = "empty"   -> EmptyRules
      [] id = "topleft" -> TopLeftRules

\* ------------------------------------------------- class CellularAutomaton
\* [[0 for _ in range(width)] for _ in range(height)], as a value
ZeroMatrix(width, height) == [r \in Range(height) |-> [c \in Range(width) |-> 0]]

\* Mutant of _initialize_grid: the draw a cell gets depends on how many lists
\* were allocated before the call (the draws are not taken from the start).
_initialize_grid_offset(ls, rs, width, height, dens, rnd) ==
    LET grid == ZeroMatrix(width, height)
    IN  NewList2D(ls, rs,
            [r \in DOMAIN grid |->
                [c \in DOMAIN grid[r] |->
                    IF rnd[(r * width + c + PyLen(ls)) % (width * height)] < dens
                    THEN 1 ELSE grid[r][c]]])

\* Mutant of _initialize_grid: `<=` for `<`.
_initialize_grid_le(ls, rs, width, height, dens, rnd) ==
    LET grid == ZeroMatrix(width, height)
    IN  NewList2D(ls, rs,
            [r \in DOMAIN grid |->
                [c \in DOMAIN grid[r] |->
                    IF rnd[r * width + c] <= dens THEN 1 ELSE grid[r][c]]])

\* _initialize_grid: a zero grid in which cell (r, c) is set to 1 when its
\* call of random.random() returns less than density.  The calls are made in
\* row-major order, so cell (r, c) gets draw number r * width + c.
_initialize_grid(ls, rs, width, height, dens, rnd) ==
    LET grid == ZeroMatrix(width, height)
    IN  NewList2D(ls, rs,
            [r \in DOMAIN grid |->
                [c \in DOMAIN grid[r] |->
                    IF rnd[r * width + c] < dens THEN 1 ELSE grid[r][c]]])

\* Mutant of CellularAutomaton: self.next_grid = self.grid, one buffer.
CellularAutomatonOneBuffer(ls, rs, width, height, rule_set, dens, rnd) ==
    LET g == _initialize_grid(ls, rs, width, height, dens, rnd)
    IN  [lists |-> g.lists,
         rows  |-> g.rows,
         self  |-> [width |-> width, height |-> height, rule_set |-> rule_set,
                    grid |-> g.ref, next_grid |-> g.ref]]

\* __init__: self.grid is built first, then self.next_grid (all zeros).
CellularAutomaton(ls, rs, width, height, rule_set, dens, rnd) ==
    LET g == _initialize_grid(ls, rs, width, height, dens, rnd)
        n == NewList2D(g.lists, g.rows, ZeroMatrix(width, height))
    IN  [lists |-> n.lists,
         rows  |-> n.rows,
         self  |-> [width |-> width, height |-> height, rule_set |-> rule_set,
                    grid |-> g.ref, next_grid |-> n.ref]]

\* The values dr and dc run through, in loop order.
Deltas == <<-1, 0, 1>>

\* Mutant of SkipOffset: the `continue` is never taken.
SkipOffsetNever(dr, dc) == FALSE

\* Mutant of SkipOffset: `or` for `and`.
SkipOffsetEither(dr, dc) == dr = 0 \/ dc = 0

\* `if dr == 0 and dc == 0: continue`
SkipOffset(dr, dc) == dr = 0 /\ dc = 0

\* The offsets (dr, dc) the two nested loops visit, row offset outermost.
VisitedOffsets ==
    [k \in 1 .. 9 |-> <<Deltas[((k - 1) \div 3) + 1], Deltas[((k - 1) % 3) + 1]>>]

\* The offsets that are not skipped, in the order visited.
KeptOffsets == SelectSeq(VisitedOffsets, LAMBDA o : ~SkipOffset(o[1], o[2]))

\* The coordinates _get_neighbor_states(r, c) samples, in the order it
\* appends their states: each offset that is not skipped, wrapped with %.
NeighborCoords(self, r, c) ==
    [k \in 1 .. Len(KeptOffsets) |->
        <<PyMod(r + KeptOffsets[k][1], self.height),
          PyMod(c + KeptOffsets[k][2], self.width)>>]

\* _get_neighbor_states: the tuple of the states read from self.grid at the
\* sampled coordinates.
_get_neighbor_states(ls, rs, self, r, c) ==
    LET at == NeighborCoords(self, r, c)
    IN  [k \in 1 .. Len(at) |-> rs[ls[self.grid][at[k][1]]][at[k][2]]]

\* The lookup of update(): key = (current_state,) + neighbor_states;
\* rule_set.get(key, current_state).
RuleLookup(rule_set, current_state, neighbor_states) ==
    LET lookup_key == <<current_state>> \o neighbor_states
    IN  DictGet(rule_set, lookup_key, current_state)

\* Mutant of UpdateCell: a cell whose key is not in rule_set is not written
\* (`if lookup_key in self.rule_set: self.next_grid[r][c] = ...`).
UpdateCellMappedOnly(ls, rs, self, r, c) ==
    LET current_state == rs[ls[self.grid][r]][c]
        neighbor_states == _get_neighbor_states(ls, rs, self, r, c)
        lookup_key == <<current_state>> \o neighbor_states
    IN  IF lookup_key \in DOMAIN RuleSetOf(self.rule_set)
        THEN [rs EXCEPT ![ls[self.next_grid][r]][c] =
                            RuleSetOf(self.rule_set)[lookup_key]]
        ELSE rs

\* The body of the double loop of update() for cell (r, c): the cell and its
\* neighbours are read from self.grid in the heap as it is at that moment,
\* and the result is written into self.next_grid.
UpdateCell(ls, rs, self, r, c) ==
    LET current_state == rs[ls[self.grid][r]][c]
        neighbor_states == _get_neighbor_states(ls, rs, self, r, c)
        next_state == RuleLookup(RuleSetOf(self.rule_set), current_state,
                                 neighbor_states)
    IN  [rs EXCEPT ![ls[self.next_grid][r]][c] = next_state]

\* The double loop of update() restricted to the cells number lo, ..., hi - 1
\* in row-major order (cell (r, c) has number r * width + c), run in order.
\* The range is split in two halves run one after the other; the loop
\* allocates nothing, and the heap the first half leaves is evaluated before
\* the second half starts, which keeps the evaluation shallow.
RECURSIVE UpdateCells(_, _, _, _, _)
UpdateCells(ls, rs, self, lo, hi) ==
    IF hi <= lo THEN rs
    ELSE IF hi = lo + 1
         THEN UpdateCell(ls, rs, self, lo \div self.width, lo % self.width)
    ELSE LET mid  == (lo + hi) \div 2
             left == UpdateCells(ls, rs, self, lo, mid)
         IN  IF DOMAIN left = DOMAIN rs
             THEN UpdateCells(ls, left, self, mid, hi)
             ELSE left

\* Mutant of CopyGrid: self.grid = self.next_grid, no copy.
AliasGrid(ls, rs, src) == [lists |-> ls, rows |-> rs, ref |-> src]

\* Mutant of CopyGrid: the last row is not copied
\* ([src[r][:] for r in range(len(src) - 1)]).
CopyGridShort(ls, rs, src) ==
    NewList2D(ls, rs, [r \in Range(PyLen(ls[src]) - 1) |-> rs[ls[src][r]]])

\* [row[:] for row in src]: a new list of new copies of the rows of src.
CopyGrid(ls, rs, src) ==
    NewList2D(ls, rs, [r \in DOMAIN ls[src] |-> rs[ls[src][r]]])

\* Mutant of Update: the two buffers are swapped instead of copied
\* (self.grid, self.next_grid = self.next_grid, self.grid).
UpdateSwap(ls, rs, self) ==
    LET rs1 == UpdateCells(ls, rs, self, 0,
                           RangeLen(self.height) * RangeLen(self.width))
    IN  [lists |-> ls, rows |-> rs1,
         self |-> [self EXCEPT !.grid = self.next_grid,
                               !.next_grid = self.grid]]

\* update(): the loop, then self.grid is rebound to a copy of self.next_grid.
\* The list self.grid held before loses this reference; it is freed when no
\* other reference to it is left (see DoUpdate).
Update(ls, rs, self) ==
    LET rs1 == UpdateCells(ls, rs, self, 0,
                           RangeLen(self.height) * RangeLen(self.width))
        cp  == CopyGrid(ls, rs1, self.next_grid)
    IN  [lists |-> cp.lists, rows |-> cp.rows,
         self |-> [self EXCEPT !.grid = cp.ref]]

\* get_grid(): the list object self.grid itself.
get_grid(self) == self.grid

\* The value of the automaton's current grid and of its next buffer.
CurGrid == GridAt(lists, rows, get_grid(automaton))
NextGrid == GridAt(lists, rows, automaton.next_grid)

\* ----------------------------------------------------------------- actions
NoProbe == [op |-> "none"]

\* automaton = CellularAutomaton(width, height, rule_set, dens) with an empty
\* heap before it, random.random() returning rnd[0], rnd[1], ...; as an
\* initial condition.
Construct(width, height, rule_set, dens, rnd) ==
    /\ \E new \in {CellularAutomaton(<<>>, <<>>, width, height, rule_set,
                                      dens, rnd)} :
           /\ lists = new.lists
           /\ rows = new.rows
           /\ automaton = new.self
    /\ built = [width |-> width, height |-> height, rule_set |-> rule_set,
                density |-> dens, draws |-> rnd]
    /\ gen = 0

\* main() is not running: the class is used on its own.
NoDriver == pc = "class" /\ running = TRUE /\ resets = 0

\* The list objects referenced from outside the automaton: the grid object
\* a caller of get_grid() still holds, or the buffers of a second automaton.
HeldBy(pr) ==
    CASE pr.op = "view" -> {pr.ref}
      [] pr.op = "twin" -> {pr.self.grid, pr.self.next_grid}
      [] OTHER -> {}

\* automaton.update()
DoUpdate ==
    /\ gen < MaxGen
    /\ \E res \in {Update(lists, rows, automaton)} :
           \E gc \in {Collect(res.lists, res.rows,
                              {res.self.grid, res.self.next_grid}
                                  \cup HeldBy(probe))} :
               /\ lists' = gc.lists
               /\ rows' = gc.rows
               /\ automaton' = res.self
    /\ gen' = gen + 1
    /\ UNCHANGED built

CallUpdate == DoUpdate /\ UNCHANGED <<probe, pc, running, resets>>

\* The class on its own: any construction, then update() calls.
InitCA ==
    /\ \E width \in 1 .. MaxW, height \in 1 .. MaxH, rule_set \in RuleIds,
          dens \in Densities :
           \E rnd \in [Range(width * height) -> Draws] :
               Construct(width, height, rule_set, dens, rnd)
    /\ probe = NoProbe
    /\ NoDriver

NextCA == CallUpdate

SpecCA == InitCA /\ [][NextCA]_vars

\* A direct call of _get_neighbor_states(r, c) on a constructed automaton.
CallNeighbors ==
    /\ probe.op = "none"
    /\ \E r \in Range(automaton.height), c \in Range(automaton.width) :
           probe' = [op |-> "neighbors", r |-> r, c |-> c,
                     at |-> NeighborCoords(automaton, r, c),
                     out |-> _get_neighbor_states(lists, rows, automaton, r, c)]
    /\ UNCHANGED <<lists, rows, automaton, built, gen, pc, running, resets>>

\* Any grid under the Life rules, for the direct calls.
InitNeighbors ==
    /\ \E width \in 1 .. MaxW, height \in 1 .. MaxH :
           \E rnd \in [Range(width * height) -> Draws] :
               Construct(width, height, "life", 3, rnd)
    /\ probe = NoProbe
    /\ NoDriver

SpecNeighbors == InitNeighbors /\ [][CallNeighbors]_vars

\* The lookup of update() on its own: any rule table, any of the 512 keys.
InitLookup ==
    /\ \E rule_set \in RuleIds :
           Construct(1, 1, rule_set, 3, [k \in Range(1) |-> 6])
    /\ \E key \in Keys :
           probe = [op |-> "key", current_state |-> Head(key),
                    neighbor_states |-> Tail(key)]
    /\ NoDriver

CallLookup ==
    /\ probe.op = "key"
    /\ probe' = [op |-> "lookup", current_state |-> probe.current_state,
                 neighbor_states |-> probe.neighbor_states,
                 out |-> RuleLookup(RuleSetOf(automaton.rule_set),
                                    probe.current_state, probe.neighbor_states)]
    /\ UNCHANGED <<lists, rows, automaton, built, gen, pc, running, resets>>

SpecLookup == InitLookup /\ [][CallLookup]_vars

\* ------------------------------------------------------- two automata
\* The draws that make _initialize_grid build the grid of draws rnd moved
\* cyclically a rows down and b columns to the right.
ShiftDraws(rnd, width, height, a, b) ==
    [k \in Range(width * height) |->
        rnd[((((k \div width) - a) % height) * width) + (((k % width) - b) % width)]]

\* first = CellularAutomaton(width, height, rule_set, 0.3) and then
\* second = CellularAutomaton(width, height, rule_set, 0.3) in the same
\* process, the second one getting the draws of the first moved by a shift
\* (the same draws for the shift (0, 0)).  `automaton` is the first, the
\* probe holds the second and the number of update() calls made on it.
InitTwin ==
    /\ \E width \in 1 .. TwinW, height \in 1 .. TwinH, rule_set \in RuleIds :
           \E rnd \in [Range(width * height) -> Draws] :
               \E a \in Range(height), b \in Range(width) :
                   \E rnd2 \in {ShiftDraws(rnd, width, height, a, b)} :
                   \E first \in {CellularAutomaton(<<>>, <<>>, width, height,
                                                    rule_set, 3, rnd)} :
                   \E second \in {CellularAutomaton(first.lists, first.rows,
                                                     width, height, rule_set, 3,
                                                     rnd2)} :
                       /\ lists = second.lists
                       /\ rows = second.rows
                       /\ automaton = first.self
                       /\ built = [width |-> width, height |-> height,
                                   rule_set |-> rule_set, density |-> 3,
                                   draws |-> rnd]
                       /\ probe = [op |-> "twin", self |-> second.self, gen |-> 0,
                                   shift |-> <<a, b>>, draws |-> rnd2]
    /\ gen = 0
    /\ NoDriver

\* first.update()
UpdateFirst ==
    /\ gen < MaxTwinGen
    /\ CallUpdate

\* second.update()
UpdateSecond ==
    /\ probe.op = "twin"
    /\ probe.gen < MaxTwinGen
    /\ \E res \in {Update(lists, rows, probe.self)} :
           \E gc \in {Collect(res.lists, res.rows,
                              {res.self.grid, res.self.next_grid,
                               automaton.grid, automaton.next_grid})} :
               /\ lists' = gc.lists
               /\ rows' = gc.rows
               /\ probe' = [probe EXCEPT !.self = res.self,
                                         !.gen = probe.gen + 1]
    /\ UNCHANGED <<automaton, built, gen, pc, running, resets>>

NextTwin == UpdateFirst \/ UpdateSecond

SpecTwin == InitTwin /\ [][NextTwin]_vars

\* ------------------------------------------- a caller that keeps the grid
\* view = automaton.get_grid(): the caller holds the returned list object;
\* the probe records the reference and the cell values it had when returned.
CallGetGrid ==
    /\ probe.op = "none"
    /\ probe' = [op |-> "view", ref |-> get_grid(automaton),
                 was |-> GridAt(lists, rows, get_grid(automaton)),
                 wrote |-> FALSE]
    /\ UNCHANGED <<lists, rows, automaton, built, gen, pc, running, resets>>

\* view[r][c] = v by the caller: an item assignment on a row of the list
\* object it holds.
HolderWrite ==
    /\ probe.op = "view"
    /\ ~probe.wrote
    /\ \E r \in DOMAIN lists[probe.ref] :
           \E c \in DOMAIN rows[lists[probe.ref][r]], v \in {0, 1} :
               rows' = [rows EXCEPT ![lists[probe.ref][r]][c] = v]
    /\ probe' = [probe EXCEPT !.wrote = TRUE]
    /\ UNCHANGED <<lists, automaton, built, gen, pc, running, resets>>

\* automaton = CellularAutomaton(width, height, rule_set, density): the
\* variable is rebound to a new automaton of the same size and rules, as the
\* SPACE branch of main() does; a list the caller holds stays allocated.
CallReset ==
    /\ resets < MaxViewResets
    /\ \E dens \in Densities :
           \E rnd \in [Range(built.width * built.height) -> Draws] :
               \E new \in {CellularAutomaton(lists, rows, built.width,
                                             built.height, built.rule_set,
                                             dens, rnd)} :
               \E gc \in {Collect(new.lists, new.rows,
                                  {new.self.grid, new.self.next_grid}
                                      \cup HeldBy(probe))} :
                   /\ lists' = gc.lists
                   /\ rows' = gc.rows
                   /\ automaton' = new.self
                   /\ built' = [built EXCEPT !.density = dens, !.draws = rnd]
    /\ gen' = 0
    /\ resets' = resets + 1
    /\ UNCHANGED <<probe, pc, running>>

\* An automaton of any size up to ViewW x ViewH, used through its methods
\* by a caller that keeps what get_grid() returned.
InitView ==
    /\ \E width \in 1 .. ViewW, height \in 1 .. ViewH, rule_set \in RuleIds :
           \E rnd \in [Range(width * height) -> Draws] :
               Construct(width, height, rule_set, 3, rnd)
    /\ probe = NoProbe
    /\ NoDriver

NextView == CallUpdate \/ CallGetGrid \/ HolderWrite \/ CallReset

SpecView == InitView /\ [][NextView]_vars

\* ------------------------------------------------ any integer dimensions
\* CellularAutomaton(width, height, rule_set, density) with width and height
\* any integers, zero and negative ones included.  __init__ has no check and
\* no raise statement and range() of a number <= 0 is empty, so the call
\* returns an automaton; random.random() is called once per cell built.
InitDims ==
    /\ \E width \in (0 - DimBelow) .. DimAbove,
          height \in (0 - DimBelow) .. DimAbove,
          rule_set \in RuleIds, dens \in Densities :
           \E rnd \in [Range(RangeLen(width) * RangeLen(height)) -> Draws] :
               Construct(width, height, rule_set, dens, rnd)
    /\ probe = [op |-> "construct", outcome |-> "returned"]
    /\ NoDriver

SpecDims == InitDims /\ [][CallUpdate]_vars

\* ----------------------------------------------------------- any density
\* An automaton of any size up to DensW x DensH with every cell Dead.
InitDensity ==
    /\ \E width \in 1 .. DensW, height \in 1 .. DensH :
           Construct(width, height, "life", 3,
                     [k \in Range(width * height) |-> 6])
    /\ probe = NoProbe
    /\ NoDriver

\* automaton = CellularAutomaton(width, height, rule_set, density) with any
\* float as density, random.random() returning any values of [0.0, 1.0).
CallConstruct ==
    /\ probe.op = "none"
    /\ \E dens \in AnyDensities :
           \E rnd \in [Range(built.width * built.height) -> AnyDraws] :
               \E new \in {CellularAutomaton(lists, rows, built.width,
                                             built.height, built.rule_set,
                                             dens, rnd)} :
               \E gc \in {Collect(new.lists, new.rows,
                                  {new.self.grid, new.self.next_grid})} :
                   /\ lists' = gc.lists
                   /\ rows' = gc.rows
                   /\ automaton' = new.self
                   /\ built' = [built EXCEPT !.density = dens, !.draws = rnd]
    /\ gen' = 0
    /\ probe' = [op |-> "constructed"]
    /\ UNCHANGED <<pc, running, resets>>

SpecDensity == InitDensity /\ [][CallConstruct]_vars

\* --------------------------------------------------- Life patterns as inputs
\* The draws that make _initialize_grid set exactly the cells of `alive`, at
\* the density 0.3 main() uses.
DrawsFor(width, height, alive) ==
    [k \in Range(width * height) |->
        IF <<k \div width, k % width>> \in alive THEN 2 ELSE 6]

\* The 2x2 block with top-left cell (r0, c0) on a width x height torus.
BlockCells(width, height, r0, c0) ==
    {<<(r0 + i) % height, (c0 + j) % width>> : i \in {0, 1}, j \in {0, 1}}

\* The horizontal and the vertical line of 3 cells centred at (r0, c0).
HLineCells(width, height, r0, c0) ==
    {<<r0, (c0 + j) % width>> : j \in {-1, 0, 1}}

VLineCells(width, height, r0, c0) ==
    {<<(r0 + i) % height, c0>> : i \in {-1, 0, 1}}

\* The grid value whose Alive cells are exactly `alive`.
GridOf(width, height, alive) ==
    [r \in Range(height) |->
        [c \in Range(width) |-> IF <<r, c>> \in alive THEN 1 ELSE 0]]

\* A block anywhere on a BlockDim x BlockDim grid under the Life rules; the
\* probe records where it was put.
InitBlock ==
    /\ \E r0 \in Range(BlockDim), c0 \in Range(BlockDim) :
           /\ Construct(BlockDim, BlockDim, "life", 3,
                        DrawsFor(BlockDim, BlockDim,
                                 BlockCells(BlockDim, BlockDim, r0, c0)))
           /\ probe = [op |-> "pattern", r |-> r0, c |-> c0]
    /\ NoDriver

SpecBlock == InitBlock /\ [][CallUpdate]_vars

\* A horizontal blinker anywhere on a grid of 5x5 or more.
InitBlinker ==
    /\ \E width \in 5 .. MaxBlinkerDim, height \in 5 .. MaxBlinkerDim :
           \E r0 \in Range(height), c0 \in Range(width) :
               /\ Construct(width, height, "life", 3,
                            DrawsFor(width, height,
                                     HLineCells(width, height, r0, c0)))
               /\ probe = [op |-> "pattern", r |-> r0, c |-> c0]
    /\ NoDriver

SpecBlinker == InitBlinker /\ [][CallUpdate]_vars

\* ------------------------------------------------------------------ main()
\* Up to the loop: the Life dictionary is built and the automaton constructed
\* with initial_density=0.3; running = True.
InitMain ==
    /\ \E rnd \in [Range(DriverW * DriverH) -> Draws] :
           Construct(DriverW, DriverH, "life", 3, rnd)
    /\ probe = NoProbe
    /\ pc = "while"
    /\ running = TRUE
    /\ resets = 0

\* `while running:`.  When a pass of the loop starts, the probe starts to
\* record the calls made on automata during the pass, in order.
While ==
    /\ pc = "while"
    /\ pc' = IF running THEN "events" ELSE "quit"
    /\ probe' = IF running THEN [op |-> "tick", calls |-> <<>>] ELSE probe
    /\ UNCHANGED <<lists, rows, automaton, built, gen, running, resets>>

\* An event of type pygame.QUIT in `for event in pygame.event.get()`.
EventQuit ==
    /\ pc = "events"
    /\ running' = FALSE
    /\ UNCHANGED <<lists, rows, automaton, built, gen, probe, pc, resets>>

\* Mutant of EventSpace: the new grid is filled in over the cells of the old
\* grid instead of over zeros.
EventSpaceOverOld ==
    /\ pc = "events"
    /\ resets < MaxResets
    /\ \E dens \in Densities :
           \E rnd \in [Range(DriverW * DriverH) -> Draws] :
               LET old == GridAt(lists, rows, automaton.grid)
                   new == CellularAutomaton(lists, rows, DriverW, DriverH,
                                            "life", dens, rnd)
                   gc  == Collect(new.lists, new.rows,
                                  {new.self.grid, new.self.next_grid})
                   g   == gc.lists[new.self.grid]
               IN  /\ lists' = gc.lists
                   /\ rows' = [a \in DOMAIN gc.rows |->
                                  IF \E r \in DOMAIN g : g[r] = a
                                  THEN LET r == CHOOSE r \in DOMAIN g : g[r] = a
                                       IN  [c \in DOMAIN gc.rows[a] |->
                                               IF old[r][c] = 1 THEN 1
                                               ELSE gc.rows[a][c]]
                                  ELSE gc.rows[a]]
                   /\ automaton' = new.self
                   /\ built' = [width |-> DriverW, height |-> DriverH,
                                rule_set |-> "life", density |-> dens,
                                draws |-> rnd]
    /\ gen' = 0
    /\ resets' = resets + 1
    /\ probe' = [probe EXCEPT !.calls = Append(probe.calls, "CellularAutomaton")]
    /\ UNCHANGED <<pc, running>>

\* A KEYDOWN event with key K_SPACE: `automaton` is rebound to a new
\* CellularAutomaton with a random density; the old one and its two buffers
\* lose their last reference.
EventSpace ==
    /\ pc = "events"
    /\ resets < MaxResets
    /\ \E dens \in Densities :
           \E rnd \in [Range(DriverW * DriverH) -> Draws] :
               \E new \in {CellularAutomaton(lists, rows, DriverW, DriverH,
                                               "life", dens, rnd)} :
               \E gc \in {Collect(new.lists, new.rows,
                                  {new.self.grid, new.self.next_grid})} :
                   /\ lists' = gc.lists
                   /\ rows' = gc.rows
                   /\ automaton' = new.self
                   /\ built' = [width |-> DriverW, height |-> DriverH,
                                rule_set |-> "life", density |-> dens,
                                draws |-> rnd]
    /\ gen' = 0
    /\ resets' = resets + 1
    /\ probe' = [probe EXCEPT !.calls = Append(probe.calls, "CellularAutomaton")]
    /\ UNCHANGED <<pc, running>>

\* Any other event: neither branch is taken.
EventOther ==
    /\ pc = "events"
    /\ UNCHANGED vars

\* Mutant of EventsDone: the frame is drawn before the update.
EventsDoneToDraw ==
    /\ pc = "events"
    /\ pc' = "draw"
    /\ UNCHANGED <<lists, rows, automaton, built, gen, probe, running, resets>>

\* Mutant of EventsDone: `if not running: break` before the update.
EventsDoneBreak ==
    /\ pc = "events"
    /\ pc' = IF running THEN "update" ELSE "while"
    /\ UNCHANGED <<lists, rows, automaton, built, gen, probe, running, resets>>

\* The event list is exhausted.
EventsDone ==
    /\ pc = "events"
    /\ pc' = "update"
    /\ UNCHANGED <<lists, rows, automaton, built, gen, probe, running, resets>>

\* automaton.update()
TickUpdate ==
    /\ pc = "update"
    /\ DoUpdate
    /\ pc' = "draw"
    /\ probe' = [probe EXCEPT !.calls = Append(probe.calls, "update")]
    /\ UNCHANGED <<running, resets>>

\* screen.fill(BLACK); draw_grid(screen, automaton.get_grid(), CELL_SIZE):
\* the grid object is read, cell by cell, and nothing of the automaton is
\* written.
TickDraw ==
    /\ pc = "draw"
    /\ probe' = [op |-> "draw", calls |-> Append(probe.calls, "get_grid"),
                 grid |-> GridAt(lists, rows, get_grid(automaton))]
    /\ pc' = "flip"
    /\ UNCHANGED <<lists, rows, automaton, built, gen, running, resets>>

\* pygame.display.flip(); clock.tick(30)
TickFlip ==
    /\ pc = "flip"
    /\ pc' = "while"
    /\ UNCHANGED <<lists, rows, automaton, built, gen, probe, running, resets>>

\* pygame.quit()
Quit ==
    /\ pc = "quit"
    /\ pc' = "done"
    /\ UNCHANGED <<lists, rows, automaton, built, gen, probe, running, resets>>

Next ==
    \/ While
    \/ EventQuit
    \/ EventSpace
    \/ EventOther
    \/ EventsDone
    \/ TickUpdate
    \/ TickDraw
    \/ TickFlip
    \/ Quit

Spec == InitMain /\ [][Next]_vars

\* ============================================================ properties
\* Reference definitions the properties are stated with.  They work on grid
\* values, not on the heap.

\* The 8 offsets in the documented order: top-left, top, top-right,
\* mid-left, mid-right, bottom-left, bottom, bottom-right.
OffsetsInOrder ==
    << <<-1, -1>>, <<-1, 0>>, <<-1, 1>>, <<0, -1>>, <<0, 1>>,
       <<1, -1>>, <<1, 0>>, <<1, 1>> >>

\* i mod n for -1 <= i <= n, written without %.
Wrap(i, n) == IF i < 0 THEN i + n ELSE IF i >= n THEN i - n ELSE i

\* The neighbour vector of (r, c) in grid value G of the given size.
NeighborsIn(G, width, height, r, c) ==
    [k \in 1 .. 8 |->
        G[Wrap(r + OffsetsInOrder[k][1], height)]
         [Wrap(c + OffsetsInOrder[k][2], width)]]

\* One synchronous generation of grid value G under rule table T.
SyncStep(G, T, width, height) ==
    [r \in Range(height) |->
        [c \in Range(width) |->
            LET key == <<G[r][c]>> \o NeighborsIn(G, width, height, r, c)
            IN  IF key \in DOMAIN T THEN T[key] ELSE G[r][c]]]

\* n synchronous generations.
RECURSIVE Generations(_, _, _, _, _)
Generations(G, T, width, height, n) ==
    IF n = 0 THEN G
    ELSE SyncStep(Generations(G, T, width, height, n - 1), T, width, height)

\* The grid a constructor call with arguments and draws b starts from.
FirstGrid(b) ==
    [r \in Range(b.height) |->
        [c \in Range(b.width) |->
            IF b.draws[r * b.width + c] < b.density THEN 1 ELSE 0]]

\* Number of Alive entries of a neighbour vector.
AliveCount(v) == Cardinality({k \in DOMAIN v : v[k] = 1})

\* The row objects of the list at address g.
RowsOf(g) == {lists[g][r] : r \in DOMAIN lists[g]}

\* C1: every update() computes every cell purely from the grid as it was
\* before the call (G'[r][c] = lookup(G[r][c], neighbours of (r, c) in G)),
\* in every update() of a sequence of calls; the buffer update() writes is
\* never the current grid nor shares a row with it.
C1_SynchronousUpdate ==
    [][ /\ automaton'.grid # automaton'.next_grid
        /\ (RowsOf(automaton.grid) \cap RowsOf(automaton.next_grid) = {})'
        /\ gen' = gen + 1 =>
               CurGrid' = SyncStep(CurGrid, RuleSetOf(automaton.rule_set),
                                   automaton.width, automaton.height) ]_vars

\* C1 witness: a second update() in a row under the position-sensitive rule
\* on a 3x3 grid, each generation differing from the one before.
C1_Witness ==
    /\ gen = 2
    /\ automaton.rule_set = "topleft"
    /\ automaton.width = 3 /\ automaton.height = 3
    /\ CurGrid # Generations(FirstGrid(built), TopLeftRules, 3, 3, 1)
    /\ FirstGrid(built) # Generations(FirstGrid(built), TopLeftRules, 3, 3, 1)

\* C2: for every cell of every grid with width, height >= 1,
\* _get_neighbor_states returns exactly 8 states, in the order of offsets
\* (-1,-1),(-1,0),(-1,1),(0,-1),(0,1),(1,-1),(1,0),(1,1); the entry for
\* (dr, dc) is grid[(r+dr) mod height][(c+dc) mod width], a coordinate inside
\* the grid.
C2_WrappedNeighborSampling ==
    probe.op = "neighbors" =>
        /\ DOMAIN probe.out = 1 .. 8
        /\ DOMAIN probe.at = 1 .. 8
        /\ \A k \in 1 .. 8 :
               LET nr == Wrap(probe.r + OffsetsInOrder[k][1], automaton.height)
                   nc == Wrap(probe.c + OffsetsInOrder[k][2], automaton.width)
               IN  /\ probe.at[k] = <<nr, nc>>
                   /\ probe.at[k][1] \in Range(automaton.height)
                   /\ probe.at[k][2] \in Range(automaton.width)
                   /\ probe.out[k] = CurGrid[nr][nc]

\* C2 witness: a call at a corner of a 3x2 grid whose neighbours are not all
\* in the same state.
C2_Witness ==
    /\ probe.op = "neighbors"
    /\ probe.r = 0 /\ probe.c = 0
    /\ automaton.width = 3 /\ automaton.height = 2
    /\ \E j, k \in DOMAIN probe.out : probe.out[j] # probe.out[k]

\* A call of _get_neighbor_states(0, 0) on a 3x3 grid.
CornerCall3x3 ==
    /\ probe.op = "neighbors"
    /\ probe.r = 0 /\ probe.c = 0
    /\ automaton.width = 3 /\ automaton.height = 3

\* C3 as stated: on a 3x3 grid the neighbour vector of (0, 0) holds cell
\* (2, 2) = grid[height-1][width-1], and holds it at the bottom-right
\* relative offset (the last entry).
C3_Original ==
    CornerCall3x3 =>
        /\ \E k \in DOMAIN probe.at : probe.at[k] = <<2, 2>>
        /\ probe.at[8] = <<automaton.height - 1, automaton.width - 1>>
        /\ probe.out[8] = CurGrid[2][2]

\* C3 as amended: on a 3x3 grid the neighbour vector of (0, 0) holds cell
\* (2, 2) = grid[height-1][width-1] exactly once, at the top-left relative
\* offset (-1, -1), the first entry; the entry at the bottom-right relative
\* offset (1, 1), the last one, is cell (1, 1).
C3_WrapCorner ==
    CornerCall3x3 =>
        /\ {k \in DOMAIN probe.at : probe.at[k] = <<2, 2>>} = {1}
        /\ probe.at[1] = <<automaton.height - 1, automaton.width - 1>>
        /\ probe.out[1] = CurGrid[2][2]
        /\ probe.at[8] = <<1, 1>>
        /\ probe.out[8] = CurGrid[1][1]

\* C3 witness: such a call, with cells (2, 2) and (1, 1) in different states.
C3_Witness == CornerCall3x3 /\ CurGrid[2][2] = 1 /\ CurGrid[1][1] = 0

\* C4: for every rule table and each of the 512 keys the lookup of update()
\* yields a cell state; for a key absent from the table it yields the current
\* state passed in (Dead or Alive), for a key in the table the stored value.
C4_TotalLookup ==
    probe.op = "lookup" =>
        LET T   == RuleSetOf(automaton.rule_set)
            key == <<probe.current_state>> \o probe.neighbor_states
        IN  /\ probe.out \in {0, 1}
            /\ key \notin DOMAIN T => probe.out = probe.current_state
            /\ key \in DOMAIN T => probe.out = T[key]

\* C4 witness: a lookup of an absent key with current state Alive.
C4_Witness ==
    /\ probe.op = "lookup"
    /\ probe.current_state = 1
    /\ (<<1>> \o probe.neighbor_states) \notin DOMAIN RuleSetOf(automaton.rule_set)
    /\ probe.out = 1

\* Birth on 3 neighbours, survival on 2 or 3.
LifeClosedForm(state, k) ==
    IF state = 0 THEN (IF k = 3 THEN 1 ELSE 0)
    ELSE (IF k = 2 \/ k = 3 THEN 1 ELSE 0)

\* C5: over all 512 keys, the table built in main() with the fallback gives
\* (Dead, v) -> Alive iff v has 3 Alive entries, and (Alive, v) -> Alive iff
\* v has 2 or 3 Alive entries, Dead otherwise.
C5_StandardLifeRule ==
    (probe.op = "lookup" /\ automaton.rule_set = "life") =>
        probe.out = LifeClosedForm(probe.current_state,
                                   AliveCount(probe.neighbor_states))

\* C5 witness: a Dead cell with 3 Alive neighbours looked up as Alive.
C5_Witness ==
    /\ probe.op = "lookup" /\ automaton.rule_set = "life"
    /\ probe.current_state = 0
    /\ AliveCount(probe.neighbor_states) = 3
    /\ probe.out = 1

\* C6: under the Life table, two neighbour vectors with the same number of
\* Alive entries give the same next state for the same current state.
C6_PermutationSymmetry ==
    (probe.op = "lookup" /\ automaton.rule_set = "life") =>
        \A i \in 0 .. 255 :
            AliveCount(Bits(i)) = AliveCount(probe.neighbor_states) =>
                RuleLookup(rules_for_game_of_life, probe.current_state, Bits(i))
                    = probe.out

\* C6 witness: an Alive cell whose 2 Alive neighbours are the last two of
\* the vector survives.
C6_Witness ==
    /\ probe.op = "lookup" /\ automaton.rule_set = "life"
    /\ probe.current_state = 1
    /\ probe.neighbor_states = <<0, 0, 0, 0, 0, 0, 1, 1>>
    /\ probe.out = 1

\* The grid holding only the block the run started with.
TheBlock ==
    GridOf(BlockDim, BlockDim, BlockCells(BlockDim, BlockDim, probe.r, probe.c))

\* C7: on a 10x10 torus whose only Alive cells are a 2x2 block, under the
\* Life table, the grid equals the initial grid after any number of update()
\* calls.
C7_BlockStillLife == CurGrid = TheBlock

\* C7 witness: the block after MaxGen update() calls, the last of which
\* wrote it into the next buffer.
C7_Witness == gen = MaxGen /\ CurGrid = TheBlock /\ NextGrid = TheBlock

\* The horizontal and the vertical blinker through the centre the run
\* started with.
TheHLine ==
    GridOf(automaton.width, automaton.height,
           HLineCells(automaton.width, automaton.height, probe.r, probe.c))

TheVLine ==
    GridOf(automaton.width, automaton.height,
           VLineCells(automaton.width, automaton.height, probe.r, probe.c))

\* C8: on an otherwise Dead torus of 5x5 or more holding a horizontal line
\* of 3 Alive cells, under the Life table, the grid is exactly the vertical
\* line through the same centre after an odd number of update() calls and
\* exactly the original horizontal line after an even number.
C8_BlinkerOscillator ==
    /\ gen % 2 = 1 => CurGrid = TheVLine
    /\ gen % 2 = 0 => CurGrid = TheHLine

\* C8 witness: back to horizontal after two update() calls on a 5x6 grid,
\* with the line wrapping over the edge.
C8_Witness ==
    /\ gen = 2
    /\ CurGrid = TheHLine /\ NextGrid = TheHLine
    /\ automaton.width = 5 /\ automaton.height = 6
    /\ probe.c = 0

\* C9: for all width, height > 0 the grid of a constructed automaton has
\* exactly height rows of exactly width cells each, after construction and
\* after any sequence of update() calls, and width and height keep the
\* values given to the constructor.
C9_DimensionInvariant ==
    /\ automaton.width = built.width
    /\ automaton.height = built.height
    /\ DOMAIN lists[automaton.grid] = Range(built.height)
    /\ \A r \in DOMAIN lists[automaton.grid] :
           DOMAIN rows[lists[automaton.grid][r]] = Range(built.width)

\* C9 witness: a 3x2 grid after MaxGen update() calls.
C9_Witness ==
    /\ gen = MaxGen
    /\ built.width = 3 /\ built.height = 2
    /\ PyLen(lists[automaton.grid]) = 2

\* C10: after a reset the grid read through get_grid(), and every grid later
\* update() calls produce, is a function of the new draws, the new density
\* and the rule table alone (so two histories with the same post-reset draws
\* have the same post-reset grids), and nothing of the old automaton's
\* buffers is left.
C10_ResetIndependence ==
    /\ CurGrid = Generations(FirstGrid(built), RuleSetOf(built.rule_set),
                             built.width, built.height, gen)
    /\ DOMAIN lists = {automaton.grid, automaton.next_grid}
    /\ DOMAIN rows = RowsOf(automaton.grid) \cup RowsOf(automaton.next_grid)

\* C10 witness: the grid about to be drawn after a reset and the update()
\* that follows it, with an Alive cell in it.
C10_Witness ==
    /\ resets = 1
    /\ gen = 1
    /\ pc = "draw"
    /\ \E r \in Range(DriverH), c \in Range(DriverW) : CurGrid[r][c] = 1

\* Grid value G moved cyclically a rows down and b columns to the right.
Shifted(G, width, height, a, b) ==
    [r \in Range(height) |->
        [c \in Range(width) |-> G[Wrap(r - a, height)][Wrap(c - b, width)]]]

\* The value of the second automaton's current grid.
TwinGrid == GridAt(lists, rows, get_grid(probe.self))

\* C11: two automata constructed with the same width, height, density and
\* rule table from the same sequence of draws have identical grids at
\* construction and whenever the same number of update() calls has been made
\* on each, however the calls on the two are interleaved; the draws an
\* automaton has consumed are the width * height of its construction, none
\* is added by update().
C11_Determinism ==
    (probe.op = "twin" /\ probe.draws = built.draws) =>
        /\ gen = probe.gen => TwinGrid = CurGrid
        /\ DOMAIN built.draws = Range(built.width * built.height)
        /\ CurGrid = Generations(FirstGrid(built), RuleSetOf(built.rule_set),
                                 built.width, built.height, gen)

\* C11 witness: two 3x3 automata from the same draws, two update() calls on
\* each, the grid having changed at each call.
C11_Witness ==
    /\ probe.op = "twin" /\ probe.draws = built.draws
    /\ gen = 2 /\ probe.gen = 2
    /\ built.width = 3 /\ built.height = 3
    /\ CurGrid # FirstGrid(built)
    /\ CurGrid # SyncStep(FirstGrid(built), RuleSetOf(built.rule_set), 3, 3)
    /\ FirstGrid(built) # SyncStep(FirstGrid(built), RuleSetOf(built.rule_set), 3, 3)

\* C20: for every grid, every rule table and every shift (a, b): the grid
\* moved cyclically by (a, b) and then advanced by update() equals the grid
\* advanced by update() and then moved by (a, b), after one call and after
\* every further one.
C20_TranslationEquivariance ==
    (probe.op = "twin" /\ gen = probe.gen) =>
        TwinGrid = Shifted(CurGrid, built.width, built.height,
                           probe.shift[1], probe.shift[2])

\* C20 witness: a 3x3 grid under the position-sensitive table, moved by
\* (1, 2), after an update() of both automata that changed the grid, the
\* moved grid differing from the grid itself.
C20_Witness ==
    /\ probe.op = "twin"
    /\ gen = 1 /\ probe.gen = 1
    /\ built.width = 3 /\ built.height = 3
    /\ built.rule_set = "topleft"
    /\ probe.shift = <<1, 2>>
    /\ CurGrid # FirstGrid(built)
    /\ TwinGrid # CurGrid

\* The value of the list object the caller holds.
HeldGrid == GridAt(lists, rows, probe.ref)

\* C12: a write through the object get_grid() returned changes neither the
\* automaton's current grid nor what a later update() produces: after such
\* a write the current grid is still the grid of the construction advanced
\* by the update() calls made.
C12_ReadOnlyView ==
    (probe.op = "view" /\ probe.wrote) =>
        CurGrid = Generations(FirstGrid(built), RuleSetOf(built.rule_set),
                              built.width, built.height, gen)

\* C13: a grid object returned by get_grid() keeps exactly the cell values
\* it had when it was returned, through every later update() and reset, as
\* long as its holder does not write to it.
C13_SnapshotsKept ==
    (probe.op = "view" /\ ~probe.wrote) => HeldGrid = probe.was

\* C13 witness: a grid object returned earlier, after a reset and an
\* update() that left the automaton with another grid object holding other
\* values.
C13_Witness ==
    /\ probe.op = "view" /\ ~probe.wrote
    /\ resets = 1
    /\ gen >= 1
    /\ probe.ref # automaton.grid
    /\ CurGrid # probe.was
    /\ HeldGrid = probe.was

\* C14: a construction with width <= 0 or height <= 0 ends in an
\* InvalidDimension error, or else the automaton it returns has positive
\* (clamped) dimensions; no automaton whose grid has no rows or has empty
\* rows is constructed and then advanced by update().
C14_InvalidDimension ==
    /\ (built.width <= 0 \/ built.height <= 0) =>
           \/ probe.outcome = "InvalidDimension"
           \/ automaton.width > 0 /\ automaton.height > 0
    /\ gen >= 1 =>
           /\ PyLen(lists[automaton.grid]) > 0
           /\ \A r \in DOMAIN lists[automaton.grid] :
                  PyLen(rows[lists[automaton.grid][r]]) > 0

\* A density in tenths clamped to [0.0, 1.0].
Clamp01(d) == IF d < 0 THEN 0 ELSE IF d > 10 THEN 10 ELSE d

\* C15: a construction with any density returns an automaton whose grid is
\* the one the clamped density gives for the same draws: all Dead for a
\* density <= 0, all Alive for a density >= 1, and for a density in between
\* a cell is Alive exactly when its own draw (number r * width + c of width
\* * height draws) is below the density.
C15_DensityClamping ==
    probe.op = "constructed" =>
        /\ DOMAIN built.draws = Range(built.width * built.height)
        /\ CurGrid = FirstGrid([built EXCEPT !.density = Clamp01(built.density)])
        /\ \A r \in Range(built.height), c \in Range(built.width) :
               /\ built.density <= 0 => CurGrid[r][c] = 0
               /\ built.density >= 10 => CurGrid[r][c] = 1
               /\ (0 < built.density /\ built.density < 10) =>
                      (CurGrid[r][c] = 1 <=>
                           built.draws[r * built.width + c] < built.density)

\* C15 witness: a 2x2 grid built with density 0.0 from draws among which
\* are 0.0 and 0.9, all Dead.
C15_Witness ==
    /\ probe.op = "constructed"
    /\ built.density = 0
    /\ built.width = 2 /\ built.height = 2
    /\ built.draws[0] = 0 /\ built.draws[3] = 9
    /\ \A r \in {0, 1}, c \in {0, 1} : CurGrid[r][c] = 0

\* The positions of the calls of `name` among the calls of the current pass
\* of the driver loop.
CallsOf(name) == {i \in DOMAIN probe.calls : probe.calls[i] = name}

\* C16: in every pass of the driver loop the calls made are any number of
\* constructor calls (resets), then one update(), then one get_grid(), in
\* that order: no reset comes after the update(), get_grid() is never read
\* before the update(), and a pass that has ended made exactly one update()
\* and one get_grid().
C16_DriverOrdering ==
    probe.op \in {"tick", "draw"} =>
        /\ Cardinality(CallsOf("update")) <= 1
        /\ Cardinality(CallsOf("get_grid")) <= 1
        /\ \A i \in CallsOf("CellularAutomaton") :
               \A j \in CallsOf("update") \cup CallsOf("get_grid") : i < j
        /\ \A i \in CallsOf("update") : \A j \in CallsOf("get_grid") : i < j
        /\ CallsOf("get_grid") # {} => CallsOf("update") # {}
        /\ pc \in {"flip", "while", "quit", "done"} =>
               /\ Cardinality(CallsOf("update")) = 1
               /\ Cardinality(CallsOf("get_grid")) = 1

\* C16 witness: the end of a pass in which QUIT and SPACE both arrived: a
\* reset, then the update(), then the read.
C16_Witness ==
    /\ pc = "flip"
    /\ ~running
    /\ probe.op = "draw"
    /\ probe.calls = <<"CellularAutomaton", "update", "get_grid">>

\* The attributes of the automaton object that are bound to an int (grid and
\* next_grid are bound to lists, rule_set to a dict).
IntAttributes == {"width", "height"}

\* C17: the simulation keeps an integer counter that every update() call
\* increments by exactly one.
C17_GenerationCounter ==
    [][ gen' = gen + 1 =>
            \E f \in IntAttributes : automaton'[f] = automaton[f] + 1 ]_vars

\* The rule key of cell (r, c) of the current grid.
KeyAt(r, c) ==
    <<CurGrid[r][c]>> \o NeighborsIn(CurGrid, automaton.width, automaton.height,
                                     r, c)

\* Every cell of grid value G is Dead.
AllDead(G) == \A r \in DOMAIN G : \A c \in DOMAIN G[r] : G[r][c] = 0

\* C18: across every update(), a cell whose key (current state, neighbour
\* vector) is not in the rule table keeps its state; with the empty table
\* the whole grid is unchanged, and so is the all-Dead grid under the Life
\* table.
C18_UnmappedStable ==
    [][ gen' = gen + 1 =>
            /\ \A r \in Range(automaton.height), c \in Range(automaton.width) :
                   KeyAt(r, c) \notin DOMAIN RuleSetOf(automaton.rule_set) =>
                       CurGrid'[r][c] = CurGrid[r][c]
            /\ automaton.rule_set = "empty" => CurGrid' = CurGrid
            /\ (automaton.rule_set = "life" /\ AllDead(CurGrid)) =>
                   CurGrid' = CurGrid ]_vars

\* C18 witness: a 3x3 grid with Alive and Dead cells under the empty table,
\* unchanged after two update() calls.
C18_Witness ==
    /\ gen = 2
    /\ automaton.rule_set = "empty"
    /\ automaton.width = 3 /\ automaton.height = 3
    /\ CurGrid = FirstGrid(built)
    /\ CurGrid[0][0] = 1 /\ CurGrid[1][1] = 0

\* C19: under the Life table every cell of the current grid, and of the
\* next buffer, is 0 or 1 in every state the driver reaches: after the
\* construction, after every update() and after every reset, with every
\* density.
C19_BinaryStates ==
    /\ \A r \in DOMAIN CurGrid : \A c \in DOMAIN CurGrid[r] :
           CurGrid[r][c] \in {0, 1}
    /\ \A r \in DOMAIN NextGrid : \A c \in DOMAIN NextGrid[r] :
           NextGrid[r][c] \in {0, 1}

\* C19 witness: after a reset and two update() calls, a grid with an Alive
\* cell that has survived.
C19_Witness ==
    /\ resets = 1
    /\ gen = 2
    /\ \E r \in DOMAIN CurGrid : \E c \in DOMAIN CurGrid[r] :
           CurGrid[r][c] = 1 /\ FirstGrid(built)[r][c] = 1

\* The set of coordinates sampled by the recorded call.
SampledCells == {probe.at[k] : k \in DOMAIN probe.at}

\* C21: on a grid with width >= 3 and height >= 3 the coordinates sampled
\* by _get_neighbor_states(r, c) are 8 different cells, none of them (r, c),
\* so the number of Alive entries of the vector is the number of different
\* Alive neighbour cells; on a grid with width < 3 or height < 3 some cell
\* is sampled more than once or the cell is its own neighbour.
C21_NeighborDistinctness ==
    probe.op = "neighbors" =>
        /\ (automaton.width >= 3 /\ automaton.height >= 3) =>
               /\ \A j, k \in DOMAIN probe.at :
                      j # k => probe.at[j] # probe.at[k]
               /\ Cardinality(SampledCells) = 8
               /\ <<probe.r, probe.c>> \notin SampledCells
               /\ AliveCount(probe.out)
                      = Cardinality({p \in SampledCells : CurGrid[p[1]][p[2]] = 1})
        /\ (automaton.width < 3 \/ automaton.height < 3) =>
               \/ Cardinality(SampledCells) < Len(probe.at)
               \/ <<probe.r, probe.c>> \in SampledCells

\* C21 witness: a call at the corner of a 3x3 grid with 3 Alive neighbours,
\* the cell itself Alive.
C21_Witness ==
    /\ probe.op = "neighbors"
    /\ probe.r = 0 /\ probe.c = 0
    /\ automaton.width = 3 /\ automaton.height = 3
    /\ CurGrid[0][0] = 1
    /\ AliveCount(probe.out) = 3

\* C22: every grid read for draw_grid is the grid of the last constructed
\* automaton advanced by at least one update(); in a pass of the loop in
\* which resets were handled it is exactly the one-step successor of the
\* grid the last constructor call randomised, whether one reset or several
\* arrived in that pass.
C22_GenerationZeroNeverDrawn ==
    probe.op = "draw" =>
        /\ gen >= 1
        /\ probe.grid = Generations(FirstGrid(built), RuleSetOf(built.rule_set),
                                    built.width, built.height, gen)
        /\ CallsOf("CellularAutomaton") # {} =>
               /\ gen = 1
               /\ probe.grid = SyncStep(FirstGrid(built),
                                        RuleSetOf(built.rule_set),
                                        built.width, built.height)

\* C22 witness: a pass with two resets, then the update() and the read; the
\* frame drawn differs from the grid the second reset randomised.
C22_Witness ==
    /\ probe.op = "draw"
    /\ probe.calls = <<"CellularAutomaton", "CellularAutomaton", "update",
                       "get_grid">>
    /\ gen = 1
    /\ probe.grid # FirstGrid(built)

====
